---- MODULE Spec2Model ----
(***************************************************************************)
(* rice-stock-data MCP server: the tool handler and the orchestration of   *)
(* the two remote calls (src/src/index.ts, class RiceStockDataMCPServer).  *)
(*                                                                         *)
(* JavaScript runs a handler without interruption from one await to the    *)
(* next, so every action below is the code between two awaits.  Strings    *)
(* whose content the code inspects (prompt, communication, sql_query) are  *)
(* sequences of one-character strings; the fixed pieces of the template    *)
(* literals are single elements of such a sequence, and string             *)
(* concatenation is \o.                                                    *)
(*                                                                         *)
(* Spec is the build of src/src/index.ts, which writes the rows to a CSV   *)
(* file; SpecTable is the build bundled in web-server.js, which renders    *)
(* them with formatQueryResults; SpecUnit calls saveDataAsCSV and          *)
(* formatQueryResults on their own.                                        *)
(***************************************************************************)
EXTENDS Integers, Sequences, FiniteSets, TLC

(* ------------------------------ bounds -------------------------------- *)

\* number of request slots of the one server instance
NumSlots == 2

\* an invocation is accepted only while failureCount + 2 <= MaxFailureCount
MaxFailureCount == 6

\* the history counter failStreak saturates here
StreakCap == 4

(* ------------------------- program constants -------------------------- *)

maxFailures == 3

Slots == 1..NumSlots

(* --------------------------- JavaScript values ------------------------ *)

Undef == [t |-> "undefined"]

Null == [t |-> "null"]

Str(s) == [t |-> "string", v |-> s]

Num(n) == [t |-> "number", v |-> n]

Arr(a) == [t |-> "array", v |-> a]

Obj(o) == [t |-> "object", v |-> o]

\* ToBoolean(x) = false
Falsy(x) ==
  \/ x.t \in {"undefined", "null"}
  \/ (x.t = "string" /\ x.v = <<>>)
  \/ (x.t = "number" /\ x.v = 0)

\* x || ''
OrEmpty(x) == IF Falsy(x) THEN Str(<<>>) ELSE x

\* String(x), as `${x}` computes it
ToText(x) ==
  CASE x.t = "undefined" -> <<"undefined">>
    [] x.t = "null" -> <<"null">>
    [] x.t = "string" -> x.v
    [] x.t = "number" -> <<ToString(x.v)>>
    [] OTHER -> <<"[object]">>

WhiteSpace == {" ", "\t", "\n", "\r"}

RECURSIVE TrimStart(_)
TrimStart(s) ==
  IF s # <<>> /\ Head(s) \in WhiteSpace THEN TrimStart(Tail(s)) ELSE s

RECURSIVE TrimEnd(_)
TrimEnd(s) ==
  IF s # <<>> /\ s[Len(s)] \in WhiteSpace
  THEN TrimEnd(SubSeq(s, 1, Len(s) - 1))
  ELSE s

\* String.prototype.trim
Trim(s) == TrimEnd(TrimStart(s))

\* String.prototype.includes
Includes(s, sub) ==
  \E i \in 1..(Len(s) - Len(sub) + 1) : SubSeq(s, i, i + Len(sub) - 1) = sub

UpperCase == <<"A", "B", "C", "D", "E", "F", "G", "H", "I", "J", "K", "L", "M",
               "N", "O", "P", "Q", "R", "S", "T", "U", "V", "W", "X", "Y", "Z">>

LowerCase == <<"a", "b", "c", "d", "e", "f", "g", "h", "i", "j", "k", "l", "m",
               "n", "o", "p", "q", "r", "s", "t", "u", "v", "w", "x", "y", "z">>

LowerChar(c) ==
  IF \E i \in 1..Len(UpperCase) : UpperCase[i] = c
  THEN LowerCase[CHOOSE i \in 1..Len(UpperCase) : UpperCase[i] = c]
  ELSE c

\* variant: the letters are left as they are
ToLowerCase_Identity(s) == s

\* String.prototype.toLowerCase
ToLowerCase(s) == [i \in 1..Len(s) |-> LowerChar(s[i])]

(* ------------------------------ errors -------------------------------- *)

NoError == [name |-> "none", message |-> <<>>, at |-> "none"]

Thrown(name, message, at) == [name |-> name, message |-> message, at |-> at]

\* what a fetch, or the reading of a response body, can reject with
NetworkErrors ==
  { [name |-> "AbortError", message |-> <<"The operation was aborted.">>],
    [name |-> "FetchError", message |-> <<"request failed">>] }

SyntaxError == [name |-> "SyntaxError", message |-> <<"Unexpected token in JSON">>]

TypeError == [name |-> "TypeError", message |-> <<"Cannot read properties">>]

FsError == [name |-> "Error", message |-> <<"EACCES: permission denied">>]

(* ------------------------------ messages ------------------------------ *)

UnknownToolText(name) == <<"Unknown tool: ", name>>

ConfigRequiredText == <<"**Configuration Required**: USER_ACCESS_TOKEN environment variable is missing.">>

PromptRequiredText == <<"Error: Please provide a query about the stock market data you'd like to access.">>

HandlerErrorText(error) == <<"Error: ">> \o error.message

AuthFailedText == <<"Authentication failed. Please check your access token is valid and hasn't expired.">>

RateLimitText == <<"Rate limit exceeded. Please wait a moment before trying again.">>

ApiErrorText(status, errorText) ==
  <<"API error (status ", ToString(status), "): ">> \o errorText

SwitchNotice == <<"**Switched to GPT-5.0** due to previous failures with GPT-4.1.\n\n">>

QuestionText(modelNotification, communication) ==
  modelNotification \o <<"**Question for you:** ">> \o communication

ExecutionFailedText(modelNotification, errorText) ==
  modelNotification \o <<"Query execution failed: ">> \o errorText

\* variant: the no-data answer without the communication
NoDataText_Bare(modelNotification, communication) ==
  modelNotification \o <<"\n\nQuery executed but returned no data.">>

NoDataText(modelNotification, communication) ==
  modelNotification \o ToText(communication) \o <<"\n\nQuery executed but returned no data.">>

TimeoutText == <<"Request timed out. The query might be too complex. Try simplifying your question.">>

ConnectErrorText(error) == <<"Error connecting to the data portal: ">> \o error.message

PromptSuffix == <<" (Please provide ALL results without LIMIT clause - I need the complete dataset)">>

(* ------------------------- persisted storage -------------------------- *)

RECURSIVE Join(_, _)
\* Array.prototype.join
Join(parts, sep) ==
  IF parts = <<>> THEN <<>>
  ELSE IF Len(parts) = 1 THEN parts[1]
  ELSE parts[1] \o sep \o Join(Tail(parts), sep)

RECURSIVE DoubleQuotes(_)
\* stringValue.replace(/"/g, '""')
DoubleQuotes(s) ==
  IF s = <<>> THEN <<>>
  ELSE (IF Head(s) = "\"" THEN <<"\"", "\"">> ELSE <<Head(s)>>) \o DoubleQuotes(Tail(s))

\* row[col]
Cell(row, col) == IF col \in DOMAIN row THEN row[col] ELSE Undef

CsvCell(value) ==
  IF value.t \in {"undefined", "null"} THEN <<>>
  ELSE LET stringValue == ToText(value) IN
       IF \/ Includes(stringValue, <<",">>)
          \/ Includes(stringValue, <<"\"">>)
          \/ Includes(stringValue, <<"\n">>)
       THEN <<"\"">> \o DoubleQuotes(stringValue) \o <<"\"">>
       ELSE stringValue

CsvRow(row, columns) ==
  Join([i \in 1..Len(columns) |-> CsvCell(Cell(row, columns[i]))], <<",">>) \o <<"\n">>

RECURSIVE CsvRows(_, _)
CsvRows(data, columns) ==
  IF data = <<>> THEN <<>>
  ELSE CsvRow(Head(data), columns) \o CsvRows(Tail(data), columns)

CsvContent(data, columns) ==
  Join(columns, <<",">>) \o <<"\n">> \o CsvRows(data, columns)

CsvPath == <<"~/rice-stock-data/stock-data-<timestamp>.csv">>

\* saveDataAsCSV runs to its end when called (it awaits nothing); fsOk is whether
\* mkdirSync and writeFileSync succeed.  The result is the promise it returns.
SaveDataAsCSV(data, columns, fsOk) ==
  IF ~fsOk
    THEN [state |-> "rejected", error |-> FsError, content |-> <<>>, wrote |-> FALSE]
  ELSE IF columns.t # "array"
    THEN [state |-> "rejected", error |-> TypeError, content |-> <<>>, wrote |-> FALSE]
  ELSE [state |-> "fulfilled", error |-> NoError,
        content |-> CsvContent(data.v, columns.v), wrote |-> TRUE]

NoPromise == [state |-> "none", error |-> NoError, content |-> <<>>, wrote |-> FALSE]

(* ------------------------------ inputs -------------------------------- *)

\* process.env.USER_ACCESS_TOKEN || ""
Tokens == { <<>>, <<"t", "k">> }

ToolNames == { "query_data", "other_tool" }

Prompts == { Undef, Str(<<>>), Str(<<" ">>), Str(<<"q">>) }

\* request.params.arguments is optional in a tools/call request
Arguments == { Undef } \cup { Obj([prompt |-> v]) : v \in Prompts }

Requests == [name : ToolNames, arguments : Arguments]

Statuses == { 200, 401, 429, 500 }

\* Response.ok
Ok(status) == status >= 200 /\ status <= 299

ErrorBodies == { <<>>, <<"d", "o", "w", "n">> }

\* response of /chat: { communication?: string, sql_query?: string }
Communications ==
  { Undef, Str(<<>>), Str(<<"o", "k">>), Str(<<"P", "E", "?">>),
    Str(<<"C", "l", "a", "r", "i", "f", "y">>) }

SqlQueries == { Undef, Str(<<>>), Str(<<" ">>), Str(<<"S", "Q", "L">>) }

\* the parsed body of a /chat response
ChatPayloads ==
  { Null } \cup { Obj([communication |-> c, sql_query |-> q]) :
                    c \in Communications, q \in SqlQueries }

ColA == <<"a">>

ColB == <<"b">>

Row1 == (ColA :> Num(1)) @@ (ColB :> Str(<<"x", ",", "y">>))

\* response of /api/query: { data?: array, columns?: array, rows?: number,
\* execution_time?: number }
DataValues == { Undef, Arr(<<>>), Arr(<<Row1>>) }

ColumnValues == { Undef, Arr(<<ColA, ColB>>) }

RowCounts == { Undef, Num(1) }

ExecutionTimes == { Undef, Num(2) }

\* the parsed body of an /api/query response
QueryPayloads ==
  { Null } \cup { Obj([data |-> d, columns |-> c, rows |-> r, execution_time |-> t]) :
                    d \in DataValues, c \in ColumnValues,
                    r \in RowCounts, t \in ExecutionTimes }

ColC == <<"c">>

\* three rows of three columns; the last row has no value for c
TableRows ==
  << (ColA :> Num(1)) @@ (ColB :> Str(<<"x">>)) @@ (ColC :> Num(1500)),
     (ColA :> Num(2)) @@ (ColB :> Str(<<"y">>)) @@ (ColC :> Null),
     (ColA :> Num(3)) @@ (ColB :> Str(<<"z">>)) >>

\* the parsed body of an /api/query response, as the table build receives it
TablePayloads ==
  { Null } \cup { Obj([data |-> d, columns |-> c, rows |-> r, execution_time |-> t]) :
                    d \in {Undef, Arr(<<>>), Arr(TableRows)},
                    c \in {Undef, Arr(<<ColA, ColB, ColC>>)},
                    r \in {Undef, Num(3), Num(21)}, t \in ExecutionTimes }

(* ------------------------------- state -------------------------------- *)

VARIABLES
  userAccessToken,    \* this.userAccessToken
  failureCount,       \* this.failureCount
  pc,                 \* per slot: where the invocation waits
  request,            \* per slot: request.params
  model,              \* per slot: const model
  chatStatus,         \* per slot: chatResponse.status (0: no response)
  communication,      \* per slot: const communication
  sqlQuery,           \* per slot: const sqlQuery
  modelNotification,  \* per slot: let modelNotification
  queryStatus,        \* per slot: queryResponse.status (0: no response)
  queryData,          \* per slot: const queryData
  csvPromise,         \* per slot: the promise of saveDataAsCSV
  response,           \* per slot: what the handler hands back to the caller
  net,                \* per slot: the requests this invocation has issued
  caught,             \* per slot: the exception a catch block received
  count0,             \* per slot: failureCount when the invocation began
  hist,               \* history: the failure streaks, and the last completed invocation
  variant,            \* which build of the server runs: "csv" or "table"
  unit                \* a helper method called on its own: its arguments and result

requestVars == <<pc, request, response, net, caught, count0>>

localVars == <<model, chatStatus, communication, sqlQuery, modelNotification,
               queryStatus, queryData, csvPromise>>

\* what no step of an invocation changes
build == <<userAccessToken, variant, unit>>

vars == <<userAccessToken, failureCount, requestVars, localVars, hist, variant, unit>>

NoRequest == [name |-> "", arguments |-> Undef]

NoResponse == [kind |-> "none", text |-> <<>>]

\* { content: [{ type: "text", text }] }
Content(text) == [kind |-> "text", text |-> text]

\* the handler's promise rejects: the exception reaches the SDK
Rejected(error) == [kind |-> "rejected", text |-> error.message]

\* no helper method is under test
NoUnit == [fn |-> "none"]

NoHistory ==
  [chatFailStreak |-> 0, failStreak |-> 0, reset |-> FALSE, chatStatus |-> 0, model |-> "",
   onlyQueryThrows |-> TRUE]

\* the server after construction: no invocation is in progress
Quiet ==
  /\ pc = [p \in Slots |-> "idle"]
  /\ request = [p \in Slots |-> NoRequest]
  /\ model = [p \in Slots |-> ""]
  /\ chatStatus = [p \in Slots |-> 0]
  /\ communication = [p \in Slots |-> Undef]
  /\ sqlQuery = [p \in Slots |-> Undef]
  /\ modelNotification = [p \in Slots |-> <<>>]
  /\ queryStatus = [p \in Slots |-> 0]
  /\ queryData = [p \in Slots |-> Undef]
  /\ csvPromise = [p \in Slots |-> NoPromise]
  /\ response = [p \in Slots |-> NoResponse]
  /\ net = [p \in Slots |-> <<>>]
  /\ caught = [p \in Slots |-> NoError]
  /\ count0 = [p \in Slots |-> 0]

\* the state after construction: no failure counted yet (lines 24, 27-42)
Constructed ==
  /\ userAccessToken \in Tokens
  /\ failureCount = 0
  /\ Quiet
  /\ hist = NoHistory

Init ==
  /\ Constructed
  /\ variant = "csv"
  /\ unit = NoUnit

(* ---------------------- the code, step by step ------------------------ *)

\* variant: the threshold compared with > instead of >=
SelectModel_Late(fc) == IF fc > maxFailures THEN "gpt-5" ELSE "gpt-4.1"

\* variant: the model follows the parity of the counter
SelectModel_Parity(fc) == IF fc % 2 = 1 THEN "gpt-5" ELSE "gpt-4.1"

\* const model = this.failureCount >= this.maxFailures ? 'gpt-5' : 'gpt-4.1'
SelectModel(fc) == IF fc >= maxFailures THEN "gpt-5" ELSE "gpt-4.1"

\* the body of the /chat request
ChatRequest(token, prompt, m) ==
  [ep |-> "chat", token |-> token, message |-> ToText(prompt) \o PromptSuffix,
   conversation_id |-> "mcp_session", model |-> m]

\* variant: the query goes out without the caller's token
QueryRequest_NoToken(token, query) == [ep |-> "query", token |-> <<>>, query |-> query]

\* the body of the /api/query request
QueryRequest(token, query) == [ep |-> "query", token |-> token, query |-> query]

\* variant: the request is sent a second time
Send_Twice(log, req) == Append(Append(log, req), req)

\* fetch(url, init): one request goes out
Send(log, req) == Append(log, req)

\* variant: an authentication failure clears the counter
CountAfterChatError_Forgive(fc, status) == IF status # 401 THEN fc + 1 ELSE 0

\* variant: every non-success status counts, 401 too
CountAfterChatError_All(fc, status) == fc + 1

\* if (chatResponse.status !== 401) this.failureCount++
CountAfterChatError(fc, status) == IF status # 401 THEN fc + 1 ELSE fc

\* variant: the notice asks for a count above the threshold
ModelNotification_Late(m, fc) ==
  IF m = "gpt-5" /\ fc > maxFailures THEN SwitchNotice ELSE <<>>

\* if (model === 'gpt-5' && this.failureCount >= this.maxFailures) modelNotification = ...
ModelNotification(m, fc) ==
  IF m = "gpt-5" /\ fc >= maxFailures THEN SwitchNotice ELSE <<>>

\* variant: the reset is missing
CountAfterChatSuccess_Keep(fc) == fc

\* this.failureCount = 0
CountAfterChatSuccess(fc) == 0

\* variant: the catch block does not count
CountAfterCatch_None(fc) == fc

\* variant: the catch block counts an exception twice
CountAfterCatch_Twice(fc) == fc + 2

\* catch (error) { this.failureCount++ ...
CountAfterCatch(fc) == fc + 1

\* variant: an aborted request gets the connectivity message too
CatchText_NoTimeout(error) == ConnectErrorText(error)

\* ... the text the catch block returns
CatchText(error) ==
  IF error.name = "AbortError" THEN TimeoutText ELSE ConnectErrorText(error)

\* what queryWithNaturalLanguage hands to the handler that awaits it
Returns(text) == [kind |-> "return", text |-> text, error |-> NoError]

Throws(error) == [kind |-> "throw", text |-> <<>>, error |-> error]

\* the catch block of queryWithNaturalLanguage
QueryCatch(error) == Returns(CatchText(error))

\* variant: the handler's catch block throws the error on
HandlerCatch_Rethrow(error) == Rejected(error)

\* the catch block of the tool handler
HandlerCatch(error) == Content(HandlerErrorText(error))

\* const result = await this.queryWithNaturalLanguage(...); return { content: ... }
HandlerAwait(outcome) ==
  IF outcome.kind = "return" THEN Content(outcome.text) ELSE HandlerCatch(outcome.error)

\* variant: the access token is not asked for
Preflight_AnyToken(name, args, token) ==
  IF name # "query_data"
    THEN [do |-> "respond", response |-> Content(UnknownToolText(name)), error |-> NoError]
  ELSE IF args.t # "object"
    THEN LET e == Thrown(TypeError.name, TypeError.message, "handler") IN
         [do |-> "respond", response |-> HandlerCatch(e), error |-> e]
  ELSE IF Falsy(args.v.prompt)
    THEN [do |-> "respond", response |-> Content(PromptRequiredText), error |-> NoError]
  ELSE [do |-> "call", response |-> NoResponse, error |-> NoError]

\* the handler, up to the call of queryWithNaturalLanguage
Preflight(name, args, token) ==
  IF name # "query_data"
    THEN [do |-> "respond", response |-> Content(UnknownToolText(name)), error |-> NoError]
  ELSE IF args.t # "object"
    THEN LET e == Thrown(TypeError.name, TypeError.message, "handler") IN
         [do |-> "respond", response |-> HandlerCatch(e), error |-> e]
  ELSE IF token = <<>>
    THEN [do |-> "respond", response |-> Content(ConfigRequiredText), error |-> NoError]
  ELSE IF Falsy(args.v.prompt)
    THEN [do |-> "respond", response |-> Content(PromptRequiredText), error |-> NoError]
  ELSE [do |-> "call", response |-> NoResponse, error |-> NoError]

Clarif == <<"c", "l", "a", "r", "i", "f">>

\* from the parsed /chat body to the branch on sqlQuery
AfterChatJson(m, fc, chatData) ==
  IF chatData.t # "object"
  THEN [count |-> fc, communication |-> Undef, sqlQuery |-> Undef,
        modelNotification |-> <<>>, do |-> "throw", text |-> <<>>,
        error |-> Thrown(TypeError.name, TypeError.message, "chatJson")]
  ELSE
    LET comm == OrEmpty(chatData.v.communication)
        sql == OrEmpty(chatData.v.sql_query)
        notif == ModelNotification(m, fc)
        base == [count |-> CountAfterChatSuccess(fc), communication |-> comm,
                 sqlQuery |-> sql, modelNotification |-> notif]
        typeError == Thrown(TypeError.name, TypeError.message, "branch")
    IN
    IF ~Falsy(sql) /\ sql.t # "string"
      THEN base @@ [do |-> "throw", text |-> <<>>, error |-> typeError]
    ELSE IF Falsy(sql) \/ Trim(sql.v) = <<>>
      THEN IF comm.t # "string"
             THEN base @@ [do |-> "throw", text |-> <<>>, error |-> typeError]
           ELSE IF Includes(comm.v, <<"?">>) \/ Includes(ToLowerCase(comm.v), Clarif)
             THEN base @@ [do |-> "return", text |-> QuestionText(notif, comm.v),
                           error |-> NoError]
           ELSE base @@ [do |-> "return", text |-> notif \o comm.v, error |-> NoError]
    ELSE base @@ [do |-> "fetch", text |-> <<>>, error |-> NoError]

\* queryData.execution_time?.toFixed(2) inside the template literal
Fixed2(t) ==
  IF t.t = "number" THEN <<ToString(t.v), ".00">> ELSE <<"undefined">>

DataText(notif, comm, sql, qd, csvFilePath) ==
  notif
  \o (IF Falsy(comm) THEN <<>> ELSE ToText(comm) \o <<"\n\n">>)
  \o <<"**Query executed:** ">> \o ToText(sql) \o <<"\n\n">>
  \o <<"**Results:** Retrieved ">> \o ToText(qd.rows) \o <<" rows in ">>
  \o Fixed2(qd.execution_time) \o <<"s\n\n">>
  \o <<"**Data Retrieved Successfully**\n\n", "**Data saved to:** ">>
  \o csvFilePath
  \o <<"\n\n", "**Ask the user:** How would you like me to handle this data?\n\n",
       "1. **Show on screen**\n", "2. **Provide download link**\n",
       "3. **Work with data**\n\n", "**Note:** The data is available in the CSV file.">>

\* after await saveDataAsCSV: the rest of the data branch
AfterSaveCsv(promise, notif, comm, sql, qd) ==
  IF promise.state = "rejected"
    THEN Throws(Thrown(promise.error.name, promise.error.message, "saveCsv"))
  ELSE IF qd.execution_time.t \notin {"undefined", "null", "number"}
    THEN Throws(Thrown(TypeError.name, TypeError.message, "format"))
  ELSE Returns(DataText(notif, comm, sql, qd, CsvPath))

(* ----------------------------- the renderer --------------------------- *)
(* formatQueryResults builds its text line by line: in its result every    *)
(* line break is an element "\n" of its own, and the cells are written     *)
(* character by character.                                                 *)

\* the Markdown code fence, three grave accents in the source
Fence == "'''"

DecimalDigits == <<"0", "1", "2", "3", "4", "5", "6", "7", "8", "9">>

RECURSIVE Digits(_)
\* the decimal digits of a natural number
Digits(n) ==
  IF n < 10 THEN <<DecimalDigits[n + 1]>>
  ELSE Digits(n \div 10) \o <<DecimalDigits[(n % 10) + 1]>>

RECURSIVE Grouped(_)
\* the digits in groups of three
Grouped(ds) ==
  IF Len(ds) <= 3 THEN ds
  ELSE Grouped(SubSeq(ds, 1, Len(ds) - 3)) \o <<",">> \o SubSeq(ds, Len(ds) - 2, Len(ds))

\* Number.prototype.toLocaleString() of an integer, in the en-US locale
ToLocaleString(n) ==
  IF n < 0 THEN <<"-">> \o Grouped(Digits(0 - n)) ELSE Grouped(Digits(n))

\* variant: null and undefined are rendered as the empty string
RenderValue_Blank(value) ==
  IF value.t \in {"undefined", "null"} THEN <<>>
  ELSE IF value.t = "number" THEN ToLocaleString(value.v)
  ELSE ToText(value)

\* the callback of columns.map: one cell
RenderValue(value) ==
  IF value.t \in {"undefined", "null"} THEN <<"n", "u", "l", "l">>
  ELSE IF value.t = "number" THEN ToLocaleString(value.v)
  ELSE ToText(value)

\* result += rowValues.join(" | ") + "\n"
RowLine(row, columns) ==
  Join([i \in 1..Len(columns) |-> RenderValue(Cell(row, columns[i]))], <<" | ">>)
  \o <<"\n">>

\* the header row and the separator row
HeaderLines(columns) ==
  Join(columns, <<" | ">>) \o <<"\n">>
  \o Join([i \in 1..Len(columns) |-> <<"---">>], <<" | ">>) \o <<"\n">>

RECURSIVE RowLines(_, _, _, _)
\* for (i = from; i < to; i++) result += the line of data[i]  (i counts from 0)
RowLines(data, columns, from, to) ==
  IF from >= to THEN <<>>
  ELSE RowLine(data[from + 1], columns) \o RowLines(data, columns, from + 1, to)

\* a fenced table of the rows from..to-1
Table(data, columns, from, to) ==
  <<Fence, "\n">> \o HeaderLines(columns) \o RowLines(data, columns, from, to) \o <<Fence>>

\* if (data.length <= 5)
SmallDataset(n) == n <= 5

\* variant: a result of twenty rows is no longer shown in full
MediumDataset_Strict(n) == n < 20

\* if (data.length <= 20)
MediumDataset(n) == n <= 20

Max(a, b) == IF a > b THEN a ELSE b

\* variant: the last three rows are shown
LastStart_Three(n) == Max(3, n - 3)

\* let i = Math.max(3, data.length - 2)
LastStart(n) == Max(3, n - 2)

\* the text for more than 20 rows (the emoji of the source are left out)
LargeDatasetText(data, columns) ==
  LET n == Len(data) IN
  <<"**Large Dataset Retrieved** (", ToString(n), " total rows)", "\n", "\n",
    "**Do not print this entire dataset - it will be very slow!**", "\n", "\n",
    "**CSV Download:** Provide a link to download this data as a CSV file.", "\n", "\n",
    "**Sample - First 3 rows:**", "\n">>
  \o Table(data, columns, 0, 3) \o <<"\n", "\n">>
  \o (IF n > 3
      THEN <<"**Last 2 rows:**", "\n">>
           \o Table(data, columns, LastStart(n), n) \o <<"\n", "\n">>
      ELSE <<>>)
  \o <<"**Full dataset contains ", ToString(n), " rows**",
       " - All data has been retrieved from the portal.", "\n", "\n",
       "**Next steps:** Use this data for analysis, create charts, calculate statistics, or generate summaries. ",
       "Do not attempt to display all ", ToString(n),
       " rows as it will be very slow in the chat interface.">>

\* formatQueryResults(data, columns); columns.join throws when columns is no array
FormatQueryResults(data, columns) ==
  IF Falsy(data) \/ Len(data.v) = 0 THEN Returns(<<"No results found.">>)
  ELSE IF columns.t # "array"
    THEN Throws(Thrown(TypeError.name, TypeError.message, "format"))
  ELSE LET n == Len(data.v) IN
       IF SmallDataset(n) THEN Returns(Table(data.v, columns.v, 0, n))
       ELSE IF MediumDataset(n)
         THEN Returns(<<"Complete dataset (", ToString(n), " rows):", "\n", "\n">>
                      \o Table(data.v, columns.v, 0, n))
       ELSE Returns(LargeDatasetText(data.v, columns.v))

(* ------------------ the data branch of the table build ---------------- *)

\* if (queryData.rows > 20)
PerformanceNote(rows) ==
  IF rows.t = "number" /\ rows.v > 20
  THEN <<"**Performance Note:** Large dataset retrieved (", ToString(rows.v), " rows). ",
         "Please work with this data programmatically - create analyses, charts, or summaries rather than displaying all rows. ",
         "Avoid printing the full dataset as it will be very slow.", "\n", "\n">>
  ELSE <<>>

\* the text of the data branch, up to the rendered table
TableDataText(notif, comm, sql, qd) ==
  notif
  \o (IF Falsy(comm) THEN <<>> ELSE ToText(comm) \o <<"\n", "\n">>)
  \o <<"**Query executed:** ">> \o ToText(sql) \o <<"\n", "\n">>
  \o <<"**Results:** (">> \o ToText(qd.rows) \o <<" rows, ">>
  \o Fixed2(qd.execution_time) \o <<"s)", "\n", "\n">>
  \o PerformanceNote(qd.rows)

\* after await queryResponse.json(): the rest of queryWithNaturalLanguage
AfterQueryJsonTable(notif, comm, sql, qd) ==
  IF Falsy(qd.data) \/ qd.data.t # "array"
    THEN Returns(NoDataText(notif, comm))
  ELSE IF qd.execution_time.t \notin {"undefined", "null", "number"}
    THEN Throws(Thrown(TypeError.name, TypeError.message, "format"))
  ELSE LET rendered == FormatQueryResults(qd.data, qd.columns) IN
       IF rendered.kind = "throw" THEN rendered
       ELSE Returns(TableDataText(notif, comm, sql, qd) \o rendered.text)

(* ------------------------------ actions ------------------------------- *)

\* the handler's promise settles: the caller will get `resp`
Respond(p, resp) ==
  /\ response' = [response EXCEPT ![p] = resp]
  /\ pc' = [pc EXCEPT ![p] = "done"]

\* queryWithNaturalLanguage returns `text` from inside its try block
Return(p, text) == Respond(p, HandlerAwait(Returns(text)))

\* an exception reaches the catch block of queryWithNaturalLanguage; fc is
\* this.failureCount as the code before the throw left it
Catch(p, fc, error) ==
  /\ failureCount' = CountAfterCatch(fc)
  /\ caught' = [caught EXCEPT ![p] = error]
  /\ Respond(p, HandlerAwait(QueryCatch(error)))

\* One orchestration at a time, and the counter stays within the bound.
Accepts(p) ==
  /\ \A q \in Slots : pc[q] = "idle"
  /\ failureCount + 2 <= MaxFailureCount

\* the history once maxFailures invocations in a row ended in a non-auth
\* chat failure and nothing else happened
Escalated ==
  [chatFailStreak |-> maxFailures, failStreak |-> maxFailures, reset |-> FALSE,
   chatStatus |-> 500, model |-> "gpt-4.1", onlyQueryThrows |-> FALSE]

\* one burst of invocations: the transport hands a request to the handler
\* whenever it arrives, whatever the other invocations are doing; requests
\* arrive until the first answer of the burst has been delivered
AcceptsOverlapping(p) == hist \in {NoHistory, Escalated}

\* the handler runs from the arrival of the request up to its first await
Handle(p) ==
  /\ pc[p] = "idle"
  /\ \E r \in Requests :
       LET pre == Preflight(r.name, r.arguments, userAccessToken)
           m == SelectModel(failureCount)
       IN
       /\ request' = [request EXCEPT ![p] = r]
       /\ count0' = [count0 EXCEPT ![p] = failureCount]
       /\ IF pre.do = "call"
          THEN /\ model' = [model EXCEPT ![p] = m]
               /\ net' = [net EXCEPT ![p] =
                            Send(net[p], ChatRequest(userAccessToken, r.arguments.v.prompt, m))]
               /\ pc' = [pc EXCEPT ![p] = "chatFetch"]
               /\ UNCHANGED <<response, caught>>
          ELSE /\ Respond(p, pre.response)
               /\ caught' = [caught EXCEPT ![p] = pre.error]
               /\ UNCHANGED <<model, net>>
  /\ UNCHANGED <<build, failureCount, chatStatus, communication, sqlQuery,
                 modelNotification, queryStatus, queryData, csvPromise, hist>>

\* tools/call arrives while no other invocation is in progress
CallTool(p) ==
  /\ Accepts(p)
  /\ Handle(p)

\* tools/call arrives, whatever the other invocations are doing
CallToolOverlapping(p) ==
  /\ AcceptsOverlapping(p)
  /\ Handle(p)

\* await fetch(`${baseUrl}/chat`) settles
ChatFetch(p) ==
  /\ pc[p] = "chatFetch"
  /\ \/ \E e \in NetworkErrors :
          /\ Catch(p, failureCount, Thrown(e.name, e.message, "chatFetch"))
          /\ UNCHANGED chatStatus
     \/ \E status \in Statuses :
          /\ chatStatus' = [chatStatus EXCEPT ![p] = status]
          /\ IF Ok(status)
             THEN /\ pc' = [pc EXCEPT ![p] = "chatJson"]
                  /\ UNCHANGED <<failureCount, response>>
             ELSE /\ failureCount' = CountAfterChatError(failureCount, status)
                  /\ IF status = 401 THEN Return(p, AuthFailedText)
                     ELSE IF status = 429 THEN Return(p, RateLimitText)
                     ELSE /\ pc' = [pc EXCEPT ![p] = "chatText"]
                          /\ UNCHANGED response
          /\ UNCHANGED caught
  /\ UNCHANGED <<build, request, net, count0, hist, model, communication,
                 sqlQuery, modelNotification, queryStatus, queryData, csvPromise>>

\* variant: the error body never arrives, and nothing ends the wait
ChatText_Hang(p) ==
  /\ pc[p] = "chatText"
  /\ UNCHANGED vars

\* await chatResponse.text() settles (the error branch)
ChatText(p) ==
  /\ pc[p] = "chatText"
  /\ \/ \E e \in NetworkErrors :
          Catch(p, failureCount, Thrown(e.name, e.message, "chatText"))
     \/ \E errorText \in ErrorBodies :
          /\ Return(p, ApiErrorText(chatStatus[p], errorText))
          /\ UNCHANGED <<failureCount, caught>>
  /\ UNCHANGED <<build, request, net, count0, hist, localVars>>

\* await chatResponse.json() settles; the code runs on to the next await or return
ChatJson(p) ==
  /\ pc[p] = "chatJson"
  /\ \/ \E e \in NetworkErrors \cup {SyntaxError} :
          /\ Catch(p, failureCount, Thrown(e.name, e.message, "chatJson"))
          /\ UNCHANGED <<communication, sqlQuery, modelNotification, net>>
     \/ \E chatData \in ChatPayloads :
          LET a == AfterChatJson(model[p], failureCount, chatData) IN
          /\ communication' = [communication EXCEPT ![p] = a.communication]
          /\ sqlQuery' = [sqlQuery EXCEPT ![p] = a.sqlQuery]
          /\ modelNotification' = [modelNotification EXCEPT ![p] = a.modelNotification]
          /\ CASE a.do = "throw" ->
                    /\ Catch(p, a.count, a.error)
                    /\ UNCHANGED net
               [] a.do = "return" ->
                    /\ failureCount' = a.count
                    /\ Return(p, a.text)
                    /\ UNCHANGED <<net, caught>>
               [] a.do = "fetch" ->
                    /\ failureCount' = a.count
                    /\ net' = [net EXCEPT ![p] =
                                 Send(net[p], QueryRequest(userAccessToken, a.sqlQuery.v))]
                    /\ pc' = [pc EXCEPT ![p] = "queryFetch"]
                    /\ UNCHANGED <<response, caught>>
  /\ UNCHANGED <<build, request, count0, hist, model, chatStatus,
                 queryStatus, queryData, csvPromise>>

\* await fetch(`${baseUrl}/api/query`) settles
QueryFetch(p) ==
  /\ pc[p] = "queryFetch"
  /\ \/ \E e \in NetworkErrors :
          /\ Catch(p, failureCount, Thrown(e.name, e.message, "queryFetch"))
          /\ UNCHANGED queryStatus
     \/ \E status \in Statuses :
          /\ queryStatus' = [queryStatus EXCEPT ![p] = status]
          /\ pc' = [pc EXCEPT ![p] = IF Ok(status) THEN "queryJson" ELSE "queryText"]
          /\ UNCHANGED <<failureCount, response, caught>>
  /\ UNCHANGED <<build, request, net, count0, hist, model, chatStatus,
                 communication, sqlQuery, modelNotification, queryData, csvPromise>>

\* await queryResponse.text() settles (the error branch)
QueryText(p) ==
  /\ pc[p] = "queryText"
  /\ \/ \E e \in NetworkErrors :
          Catch(p, failureCount, Thrown(e.name, e.message, "queryText"))
     \/ \E errorText \in ErrorBodies :
          /\ Return(p, ExecutionFailedText(modelNotification[p], errorText))
          /\ UNCHANGED <<failureCount, caught>>
  /\ UNCHANGED <<build, request, net, count0, hist, localVars>>

\* await queryResponse.json() settles; saveDataAsCSV is called when there are rows
QueryJson(p) ==
  /\ variant = "csv"
  /\ pc[p] = "queryJson"
  /\ \/ \E e \in NetworkErrors \cup {SyntaxError} :
          /\ Catch(p, failureCount, Thrown(e.name, e.message, "queryJson"))
          /\ UNCHANGED <<queryData, csvPromise>>
     \/ /\ Catch(p, failureCount, Thrown(TypeError.name, TypeError.message, "queryJson"))
        /\ queryData' = [queryData EXCEPT ![p] = Null]
        /\ UNCHANGED csvPromise
     \/ \E qd \in QueryPayloads \ {Null} :
          /\ queryData' = [queryData EXCEPT ![p] = qd.v]
          /\ IF ~Falsy(qd.v.data) /\ qd.v.data.t = "array"
             THEN \E fsOk \in BOOLEAN :
                    /\ csvPromise' = [csvPromise EXCEPT ![p] =
                                        SaveDataAsCSV(qd.v.data, qd.v.columns, fsOk)]
                    /\ pc' = [pc EXCEPT ![p] = "saveCsv"]
                    /\ UNCHANGED <<failureCount, response, caught>>
             ELSE /\ Return(p, NoDataText(modelNotification[p], communication[p]))
                  /\ UNCHANGED <<failureCount, caught, csvPromise>>
  /\ UNCHANGED <<build, request, net, count0, hist, model, chatStatus,
                 communication, sqlQuery, modelNotification, queryStatus>>

\* await this.saveDataAsCSV(...) settles; the result text is put together
SaveCsv(p) ==
  /\ pc[p] = "saveCsv"
  /\ LET o == AfterSaveCsv(csvPromise[p], modelNotification[p], communication[p],
                           sqlQuery[p], queryData[p])
     IN IF o.kind = "throw"
        THEN Catch(p, failureCount, o.error)
        ELSE /\ Return(p, o.text)
             /\ UNCHANGED <<failureCount, caught>>
  /\ UNCHANGED <<build, request, net, count0, hist, localVars>>

\* the table build: await queryResponse.json() settles, and the result text
\* is put together with formatQueryResults
QueryJsonTable(p) ==
  /\ variant = "table"
  /\ pc[p] = "queryJson"
  /\ \/ \E e \in NetworkErrors \cup {SyntaxError} :
          /\ Catch(p, failureCount, Thrown(e.name, e.message, "queryJson"))
          /\ UNCHANGED queryData
     \/ /\ Catch(p, failureCount, Thrown(TypeError.name, TypeError.message, "queryJson"))
        /\ queryData' = [queryData EXCEPT ![p] = Null]
     \/ \E qd \in TablePayloads \ {Null} :
          LET o == AfterQueryJsonTable(modelNotification[p], communication[p],
                                       sqlQuery[p], qd.v)
          IN
          /\ queryData' = [queryData EXCEPT ![p] = qd.v]
          /\ IF o.kind = "throw"
             THEN Catch(p, failureCount, o.error)
             ELSE /\ Return(p, o.text)
                  /\ UNCHANGED <<failureCount, caught>>
  /\ UNCHANGED <<build, request, net, count0, hist, model, chatStatus,
                 communication, sqlQuery, modelNotification, queryStatus, csvPromise>>

(* ------------------- what an invocation turned out to be --------------- *)

Min(a, b) == IF a < b THEN a ELSE b

Done(p) == pc[p] = "done"

\* the invocation is inside queryWithNaturalLanguage, or has been
Orchestrated(p) == pc[p] # "idle" /\ net[p] # <<>>

ChatRequests(p) == SelectSeq(net[p], LAMBDA r : r.ep = "chat")

QueryRequests(p) == SelectSeq(net[p], LAMBDA r : r.ep = "query")

\* the /chat call came back with a success status
ChatOkStatus(p) == Orchestrated(p) /\ Ok(chatStatus[p])

\* ... and its body was read as a JSON object: the code reached the reset
ChatSucceeded(p) == ChatOkStatus(p) /\ pc[p] # "chatJson" /\ caught[p].at # "chatJson"

\* the /chat call failed, and not with status 401
ChatFailedNonAuth(p) ==
  /\ Done(p) /\ Orchestrated(p)
  /\ \/ caught[p].at \in {"chatFetch", "chatText", "chatJson"}
     \/ (chatStatus[p] # 0 /\ ~Ok(chatStatus[p]) /\ chatStatus[p] # 401)

\* the /api/query call failed, and not with status 401
QueryFailedNonAuth(p) ==
  /\ Done(p) /\ QueryRequests(p) # <<>>
  /\ \/ caught[p].at \in {"queryFetch", "queryText", "queryJson"}
     \/ (queryStatus[p] # 0 /\ ~Ok(queryStatus[p]) /\ queryStatus[p] # 401)

\* a remote call of the invocation failed, and not with status 401
FailedNonAuth(p) == ChatFailedNonAuth(p) \/ QueryFailedNonAuth(p)

\* the response goes out to the caller and the slot is free again
Deliver(p) ==
  /\ pc[p] = "done"
  /\ hist' = [chatFailStreak |->
                IF ChatFailedNonAuth(p) THEN Min(hist.chatFailStreak + 1, StreakCap) ELSE 0,
              failStreak |->
                IF FailedNonAuth(p) THEN Min(hist.failStreak + 1, StreakCap) ELSE 0,
              reset |-> ChatSucceeded(p),
              chatStatus |-> chatStatus[p],
              model |-> model[p],
              onlyQueryThrows |->
                /\ hist.onlyQueryThrows
                /\ ChatSucceeded(p)
                /\ caught[p].at \in {"queryFetch", "queryText", "queryJson"}]
  /\ pc' = [pc EXCEPT ![p] = "idle"]
  /\ request' = [request EXCEPT ![p] = NoRequest]
  /\ model' = [model EXCEPT ![p] = ""]
  /\ chatStatus' = [chatStatus EXCEPT ![p] = 0]
  /\ communication' = [communication EXCEPT ![p] = Undef]
  /\ sqlQuery' = [sqlQuery EXCEPT ![p] = Undef]
  /\ modelNotification' = [modelNotification EXCEPT ![p] = <<>>]
  /\ queryStatus' = [queryStatus EXCEPT ![p] = 0]
  /\ queryData' = [queryData EXCEPT ![p] = Undef]
  /\ csvPromise' = [csvPromise EXCEPT ![p] = NoPromise]
  /\ response' = [response EXCEPT ![p] = NoResponse]
  /\ net' = [net EXCEPT ![p] = <<>>]
  /\ caught' = [caught EXCEPT ![p] = NoError]
  /\ count0' = [count0 EXCEPT ![p] = 0]
  /\ UNCHANGED <<build, failureCount>>

Next ==
  \E p \in Slots :
    \/ CallTool(p)
    \/ ChatFetch(p)
    \/ ChatText(p)
    \/ ChatJson(p)
    \/ QueryFetch(p)
    \/ QueryText(p)
    \/ QueryJson(p)
    \/ SaveCsv(p)
    \/ Deliver(p)

Spec == Init /\ [][Next]_vars

\* an await of invocation p settles: the network call responds or fails, the
\* body is read or the read fails, the promise of saveDataAsCSV is settled
Settle(p) ==
  \/ ChatFetch(p)
  \/ ChatText(p)
  \/ ChatJson(p)
  \/ QueryFetch(p)
  \/ QueryText(p)
  \/ QueryJson(p)
  \/ SaveCsv(p)

\* every await that can settle does settle
SpecLive == Spec /\ \A p \in Slots : WF_vars(Settle(p))

\* invocations interleave at their awaits
\* the requests and response bodies of a burst: a part of Requests,
\* Communications, Statuses and QueryPayloads
BurstInputs ==
  \A p \in Slots :
    /\ request[p].arguments \in {Undef, Obj([prompt |-> Undef]), Obj([prompt |-> Str(<<"q">>)])}
    /\ communication[p] \in {Undef, Str(<<>>), Str(<<"o", "k">>)}
    /\ queryStatus[p] \in {0, 200, 500}
    /\ queryData[p] \in
         {Undef, Null} \cup
         { [data |-> d, columns |-> c, rows |-> Num(1), execution_time |-> Num(2)] :
             d \in DataValues, c \in ColumnValues }

NextOverlapping ==
  /\ \E p \in Slots :
       \/ CallToolOverlapping(p)
       \/ ChatFetch(p)
       \/ ChatText(p)
       \/ ChatJson(p)
       \/ QueryFetch(p)
       \/ QueryText(p)
       \/ QueryJson(p)
       \/ SaveCsv(p)
       \/ Deliver(p)
  /\ BurstInputs'

\* the server with no failure counted, or with maxFailures of them counted
InitOverlapping ==
  /\ userAccessToken \in Tokens
  /\ Quiet
  /\ variant = "csv"
  /\ unit = NoUnit
  /\ \E h \in {NoHistory, Escalated} :
       /\ hist = h
       /\ failureCount = h.chatFailStreak

SpecOverlapping == InitOverlapping /\ [][NextOverlapping]_vars

\* the table build after construction
InitTable ==
  /\ Constructed
  /\ variant = "table"
  /\ unit = NoUnit

NextTable ==
  \E p \in Slots :
    \/ CallTool(p)
    \/ ChatFetch(p)
    \/ ChatText(p)
    \/ ChatJson(p)
    \/ QueryFetch(p)
    \/ QueryText(p)
    \/ QueryJsonTable(p)
    \/ Deliver(p)

SpecTable == InitTable /\ [][NextTable]_vars

(* -------------------- the helper methods on their own ----------------- *)
(* formatQueryResults and saveDataAsCSV keep no state: each is called with *)
(* arguments drawn from the sets below, and its result is recorded.        *)

\* the largest number of rows a result has
MaxRows == 22

\* a key of the rows that no column list names
ColX == <<"x">>

NoKey == [c \in {} |-> Undef]

\* row i of a result (i counts from 1): column a numbers the rows; column b
\* holds null, a number or a string (kind 1), or is absent from every other
\* row (kind 2)
ResultRow(i, kind) ==
  (ColA :> Num(i)) @@ (ColX :> Str(<<"e">>))
  @@ (IF kind = 1
      THEN (ColB :> (CASE i % 3 = 0 -> Null
                       [] i % 3 = 1 -> Num(i * 1000)
                       [] OTHER -> Str(<<"s">>)))
      ELSE IF i % 2 = 0 THEN NoKey ELSE (ColB :> Str(<<"v">>)))

ResultRows(n, kind) == [i \in 1..n |-> ResultRow(i, kind)]

ColumnLists == { <<ColA>>, <<ColA, ColB>>, <<ColB, ColA>>, <<ColA, ColC, ColB>> }

NoResult == [kind |-> "none", text |-> <<>>, error |-> NoError]

\* the calls of formatQueryResults(data, columns)
FormatCalls ==
  { [fn |-> "formatQueryResults", stage |-> "called", data |-> Arr(ResultRows(n, kind)),
     columns |-> Arr(columns), result |-> NoResult] :
      n \in 0..MaxRows, kind \in 1..2, columns \in ColumnLists }

\* the largest number of rows written to a CSV file
MaxCsvRows == 2

\* column names and cell values with the characters that CSV gives a meaning
CsvColumnLists ==
  { <<ColA>>, <<ColA, ColB>>, <<ColB, ColA>>, <<<<"a", ",", "b">>>>, <<<<"\"", "q">>>>,
    <<<<"l", "\n">>>>, <<ColA, <<",">>>> }

CsvValues ==
  { Null, Str(<<"7">>), Str(<<"x">>), Str(<<"x", ",", "y">>), Str(<<"\"">>),
    Str(<<"l", "\n", "m">>), Str(<<"a", "\"", ",">>) }

\* the rows over a column list: any value in its first column, and in the
\* others nothing or a comma
CsvRowsOver(columns) ==
  { row \in [{columns[j] : j \in 1..Len(columns)} -> CsvValues \cup {Undef, Str(<<",">>)}] :
      /\ row[columns[1]] \in CsvValues
      /\ \A j \in 2..Len(columns) : row[columns[j]] \in {Undef, Str(<<",">>)} }

\* the calls of saveDataAsCSV(data, columns)
CsvCalls ==
  { [fn |-> "saveDataAsCSV", stage |-> "called", data |-> Arr(data),
     columns |-> Arr(columns), result |-> NoPromise] :
      columns \in CsvColumnLists, data \in {<<>>} } \cup
  UNION { { [fn |-> "saveDataAsCSV", stage |-> "called", data |-> Arr(data),
             columns |-> Arr(columns), result |-> NoPromise] :
              data \in UNION { [1..n -> CsvRowsOver(columns)] : n \in 1..MaxCsvRows } } :
          columns \in CsvColumnLists }

InitUnit ==
  /\ Constructed
  /\ variant = "csv"
  /\ unit \in FormatCalls \cup CsvCalls

\* saveDataAsCSV(data, columns) settles its promise
CallSaveDataAsCSV ==
  /\ unit.fn = "saveDataAsCSV"
  /\ unit.stage = "called"
  /\ \E fsOk \in BOOLEAN :
       unit' = [unit EXCEPT !.stage = "returned",
                            !.result = SaveDataAsCSV(unit.data, unit.columns, fsOk)]
  /\ UNCHANGED <<userAccessToken, failureCount, requestVars, localVars, hist, variant>>

\* formatQueryResults(data, columns) returns
CallFormatQueryResults ==
  /\ unit.fn = "formatQueryResults"
  /\ unit.stage = "called"
  /\ unit' = [unit EXCEPT !.stage = "returned",
                          !.result = FormatQueryResults(unit.data, unit.columns)]
  /\ UNCHANGED <<userAccessToken, failureCount, requestVars, localVars, hist, variant>>

NextUnit ==
  \/ CallFormatQueryResults
  \/ CallSaveDataAsCSV

SpecUnit == InitUnit /\ [][NextUnit]_vars

(* ------------------------------ claims -------------------------------- *)

\* the model identifier the invocation sent in its /chat request
SentModel(p) == ChatRequests(p)[1].model

BeginsWithNotice(text) ==
  Len(text) >= Len(SwitchNotice) /\ SubSeq(text, 1, Len(SwitchNotice)) = SwitchNotice

\* C1, as stated: after three consecutive invocations that each ended in a
\* non-authentication failure of a remote call (of either call), the next
\* invocation sends gpt-5.
C1_Original ==
  \A p \in Slots :
    (Orchestrated(p) /\ hist.failStreak >= 3) => SentModel(p) = "gpt-5"

\* C1, amended: after three consecutive invocations that each ended in a
\* non-authentication failure of the chat-intent call, the next invocation
\* sends gpt-5, and so does every further one while such failures continue.
C1_FallbackAfterThreeChatFailures ==
  \A p \in Slots :
    (Orchestrated(p) /\ hist.chatFailStreak >= 3) => SentModel(p) = "gpt-5"

C1_Witness ==
  \E p \in Slots :
    /\ Orchestrated(p) /\ hist.chatFailStreak = 3 /\ count0[p] = 3
    /\ SentModel(p) = "gpt-5"

\* C2, as stated: a success status of the chat-intent call resets the counter in
\* that invocation (so it ends at most 1), and the next invocation sends gpt-4.1.
C2_Original ==
  \A p \in Slots :
    /\ (Done(p) /\ ChatOkStatus(p)) => failureCount <= 1
    /\ (Orchestrated(p) /\ Ok(hist.chatStatus)) => SentModel(p) = "gpt-4.1"

\* C2, amended: when the chat-intent call returns a success status and its body
\* is read as a JSON object, the counter is set to 0 whatever it was; it is 0
\* while the query-execution step runs, the invocation ends with 0 (with 1 when
\* an exception followed the reset), and the next invocation sends gpt-4.1.
C2_ResetOnChatSuccess ==
  \A p \in Slots :
    /\ pc[p] \in {"queryFetch", "queryText", "queryJson", "saveCsv"} => failureCount = 0
    /\ (Done(p) /\ ChatSucceeded(p)) =>
         failureCount = (IF caught[p] = NoError THEN 0 ELSE 1)
    /\ (Orchestrated(p) /\ hist.reset) => SentModel(p) = "gpt-4.1"

C2_Witness ==
  \E p \in Slots :
    /\ Orchestrated(p) /\ hist.reset /\ hist.model = "gpt-5"
    /\ SentModel(p) = "gpt-4.1"

\* C3: an invocation whose chat-intent call returns 401 leaves the counter as it
\* was at the start of the invocation, so the invocation after a 401 selects the
\* model the 401 invocation selected.
C3_AuthFailureLeavesCounter ==
  \A p \in Slots :
    /\ (Done(p) /\ chatStatus[p] = 401) =>
         /\ failureCount = count0[p]
         /\ response[p] = Content(AuthFailedText)
    /\ (Orchestrated(p) /\ hist.chatStatus = 401) => SentModel(p) = hist.model

C3_Witness ==
  \E p \in Slots :
    /\ Done(p) /\ chatStatus[p] = 401 /\ hist.chatStatus = 401
    /\ count0[p] = maxFailures - 1 /\ failureCount = count0[p]

\* C4, as stated: when the chat-intent call returns a non-success status other
\* than 401, the invocation ends with the counter exactly one higher, with the
\* rate-limit or API-error message, and with the chat-intent request its only
\* request.
C4_Original ==
  \A p \in Slots :
    (Done(p) /\ chatStatus[p] # 0 /\ ~Ok(chatStatus[p]) /\ chatStatus[p] # 401) =>
      /\ failureCount = count0[p] + 1
      /\ \/ response[p] = Content(RateLimitText)
         \/ \E b \in ErrorBodies : response[p] = Content(ApiErrorText(chatStatus[p], b))
      /\ Len(net[p]) = 1

\* C5, as stated: in an invocation whose chat-intent call succeeded, the text
\* begins with the switch notice iff the counter at the start was >= 3.
C5_Original ==
  \A p \in Slots :
    (Done(p) /\ ChatSucceeded(p)) =>
      (BeginsWithNotice(response[p].text) <=> count0[p] >= maxFailures)

\* C5, amended: in an invocation whose chat-intent call succeeded and in which
\* no exception was thrown afterwards, the text begins with the switch notice
\* iff the counter at the start was >= 3, i.e. iff gpt-5 was requested; when an
\* exception followed the success, the text has no notice.
C5_NoticeIffEscalated ==
  \A p \in Slots :
    (Done(p) /\ ChatSucceeded(p)) =>
      IF caught[p] = NoError
      THEN /\ BeginsWithNotice(response[p].text) <=> count0[p] >= maxFailures
           /\ BeginsWithNotice(response[p].text) <=> SentModel(p) = "gpt-5"
      ELSE ~BeginsWithNotice(response[p].text)

C5_Witness ==
  \E p \in Slots :
    /\ Done(p) /\ ChatSucceeded(p) /\ caught[p] = NoError
    /\ count0[p] >= maxFailures /\ csvPromise[p].wrote
    /\ BeginsWithNotice(response[p].text)

\* C6, as stated: the fourth call after three consecutive chat-intent failures
\* shows the switch notice in its text, and when it fails too the fallback
\* model stays selected.
C6_Original ==
  \A p \in Slots :
    (Done(p) /\ Orchestrated(p) /\ hist.chatFailStreak = 3) =>
      /\ BeginsWithNotice(response[p].text)
      /\ ChatFailedNonAuth(p) => SelectModel(failureCount) = "gpt-5"

\* C6, amended: the fourth call after three consecutive chat-intent failures
\* requests gpt-5; its text shows the switch notice exactly when its chat-intent
\* call succeeds and nothing throws afterwards; when it is itself a chat-intent
\* failure other than 401 its text has no notice and the fallback model stays
\* selected for the following invocation.
C6_FourthCall ==
  \A p \in Slots :
    (Orchestrated(p) /\ hist.chatFailStreak >= 3) =>
      /\ SentModel(p) = "gpt-5"
      /\ Done(p) =>
           /\ BeginsWithNotice(response[p].text) <=>
                (ChatSucceeded(p) /\ caught[p] = NoError)
           /\ ChatFailedNonAuth(p) => SelectModel(failureCount) = "gpt-5"

C6_Witness ==
  \E p \in Slots :
    /\ Done(p) /\ Orchestrated(p) /\ hist.chatFailStreak = 3
    /\ ChatFailedNonAuth(p) /\ ~BeginsWithNotice(response[p].text)
    /\ SelectModel(failureCount) = "gpt-5"

\* the prompt of the request is missing, empty or whitespace-only
BlankPrompt(r) ==
  \/ r.arguments.t # "object"
  \/ Falsy(r.arguments.v.prompt)
  \/ (r.arguments.v.prompt.t = "string" /\ Trim(r.arguments.v.prompt.v) = <<>>)

\* C7, as stated (for query_data with a token configured and an arguments
\* object): a missing, empty or whitespace-only prompt gets the instructional
\* message and no network call.
C7_Original ==
  \A p \in Slots :
    ( /\ pc[p] # "idle" /\ request[p].name = "query_data" /\ userAccessToken # <<>>
      /\ request[p].arguments.t = "object" /\ BlankPrompt(request[p]) ) =>
      /\ net[p] = <<>>
      /\ Done(p) => response[p] = Content(PromptRequiredText)

\* C8, as stated: with no access token, every query_data invocation returns the
\* configuration-error message and issues no network call.
C8_Original ==
  \A p \in Slots :
    (pc[p] # "idle" /\ request[p].name = "query_data" /\ userAccessToken = <<>>) =>
      /\ net[p] = <<>>
      /\ Done(p) => response[p] = Content(ConfigRequiredText)

\* C9: every finished invocation hands text to the caller, whatever the remote
\* calls and the local steps did; the handler's promise never rejects.
C9_AlwaysText ==
  \A p \in Slots :
    /\ response[p].kind # "rejected"
    /\ Done(p) => (response[p].kind = "text" /\ response[p] # NoResponse)
    /\ (Done(p) /\ caught[p] # NoError) =>
         \/ response[p] = Content(HandlerErrorText(caught[p]))
         \/ response[p] = Content(CatchText(caught[p]))

C9_Witness ==
  \E p \in Slots :
    /\ Done(p) /\ caught[p].at = "handler" /\ response[p].kind = "text"

\* C10: an invocation issues at most one chat-intent request and at most one
\* query-execution request, the second only after the first; an invocation that
\* failed issued nothing after the request that failed.
C10_NoRetries ==
  \A p \in Slots :
    /\ Len(ChatRequests(p)) <= 1 /\ Len(QueryRequests(p)) <= 1
    /\ pc[p] \in {"chatFetch", "chatText", "chatJson"} => Len(net[p]) = 1
    /\ pc[p] \in {"queryFetch", "queryText", "queryJson", "saveCsv"} => Len(net[p]) = 2
    /\ (Done(p) /\ Orchestrated(p) /\ ~ChatSucceeded(p)) => Len(net[p]) = 1
    /\ (Done(p) /\ QueryRequests(p) # <<>>) => Len(net[p]) = 2
    /\ Len(net[p]) >= 1 => net[p][1].ep = "chat"

C10_Witness ==
  \E p \in Slots :
    /\ Done(p) /\ QueryFailedNonAuth(p) /\ Len(net[p]) = 2
    /\ net[p][2].ep = "query"

\* C11, as stated: the counter rises only inside an invocation in which a remote
\* call failed with a non-authentication failure; an invocation whose remote
\* calls all returned a success status leaves the counter no higher than it
\* found it.
C11_Original ==
  \A p \in Slots :
    (Done(p) /\ Orchestrated(p)) =>
      /\ failureCount > count0[p] => FailedNonAuth(p)
      /\ (Ok(chatStatus[p]) /\ (QueryRequests(p) = <<>> \/ Ok(queryStatus[p])))
           => failureCount <= count0[p]

(* reading a rendered text back: its lines, its tables, their cells *)

RECURSIVE SplitOn(_, _)
\* the pieces of s between the elements equal to sep
SplitOn(s, sep) ==
  IF \A i \in 1..Len(s) : s[i] # sep THEN <<s>>
  ELSE LET i == CHOOSE j \in 1..Len(s) :
                  s[j] = sep /\ \A k \in 1..(j - 1) : s[k] # sep
       IN <<SubSeq(s, 1, i - 1)>> \o SplitOn(SubSeq(s, i + 1, Len(s)), sep)

Lines(text) == SplitOn(text, "\n")

Cells(line) == SplitOn(line, " | ")

RECURSIVE FencedRows(_, _)
\* the data lines of the fenced tables: k is 0 outside a fence, and otherwise
\* the number of the next line inside it (1: header, 2: separator)
FencedRows(lines, k) ==
  IF lines = <<>> THEN <<>>
  ELSE IF Head(lines) = <<Fence>> THEN FencedRows(Tail(lines), IF k = 0 THEN 1 ELSE 0)
  ELSE IF k = 0 THEN FencedRows(Tail(lines), 0)
  ELSE IF k <= 2 THEN FencedRows(Tail(lines), k + 1)
  ELSE <<Head(lines)>> \o FencedRows(Tail(lines), k + 1)

\* the data rows a text shows, each as the sequence of its cells
DataRows(text) ==
  LET rows == FencedRows(Lines(text), 0) IN [k \in 1..Len(rows) |-> Cells(rows[k])]

EndsWith(text, suffix) ==
  Len(text) >= Len(suffix)
  /\ SubSeq(text, Len(text) - Len(suffix) + 1, Len(text)) = suffix

\* the query-execution call returned a success status and a body with a row array
HasRowArray(p) ==
  /\ Ok(queryStatus[p])
  /\ "data" \in DOMAIN queryData[p]
  /\ queryData[p].data.t = "array"

\* C12, as stated: when the chat-intent call succeeds with a non-blank sqlQuery
\* and the query-execution call succeeds with a row array, the returned text
\* contains the communication (if present), the executed query, the row count
\* and, at its end, what the Renderer makes of the rows and columns: a table
\* with one line for each row and one cell for each column.
C12_Original ==
  \A p \in Slots :
    (Done(p) /\ ChatSucceeded(p) /\ HasRowArray(p) /\ queryData[p].columns.t = "array") =>
      LET qd == queryData[p]
          text == response[p].text
          rendered == FormatQueryResults(qd.data, qd.columns)
      IN
      /\ response[p].kind = "text"
      /\ ~Falsy(communication[p]) => Includes(text, communication[p].v)
      /\ Includes(text, sqlQuery[p].v)
      /\ Includes(text, ToText(qd.rows))
      /\ EndsWith(text, rendered.text)
      /\ Len(qd.data.v) \in 1..5 =>
           /\ Len(DataRows(text)) = Len(qd.data.v)
           /\ \A k \in 1..Len(DataRows(text)) :
                Len(DataRows(text)[k]) = Len(qd.columns.v)

\* formatQueryResults has returned
Rendered == unit.fn = "formatQueryResults" /\ unit.stage = "returned"

\* the text begins with the caption of a result of n rows shown in full
HasCaption(text, n) ==
  Len(text) >= 3 /\ SubSeq(text, 1, 3) = <<"Complete dataset (", ToString(n), " rows):">>

\* the text is the sampled form
IsSample(text) == Includes(text, <<"**Sample - First 3 rows:**">>)

\* the text gives n as the number of rows of the whole result
HasTotal(text, n) ==
  /\ Includes(text, <<"**Large Dataset Retrieved** (", ToString(n), " total rows)">>)
  /\ Includes(text, <<"**Full dataset contains ", ToString(n), " rows**">>)

\* C13: the Renderer's strategy depends on the number of rows only: 0 rows give
\* "No results found."; 1 to 5 rows a table of all rows without caption or
\* notice; 6 to 20 rows a table of all rows under the "Complete dataset"
\* caption; more than 20 rows the sampled form with the total-count notice.
C13_StrategyByRowCount ==
  Rendered =>
    LET n == Len(unit.data.v)
        text == unit.result.text
        shown == Len(DataRows(text))
        notice == \E m \in 0..(MaxRows + 1) : HasTotal(text, m)
        caption == \E m \in 0..(MaxRows + 1) : HasCaption(text, m)
    IN
    /\ unit.result.kind = "return"
    /\ n = 0 => text = <<"No results found.">>
    /\ (n >= 1 /\ n <= 5) =>
         (shown = n /\ text[1] = Fence /\ ~caption /\ ~IsSample(text) /\ ~notice)
    /\ (n >= 6 /\ n <= 20) =>
         (shown = n /\ HasCaption(text, n) /\ ~IsSample(text) /\ ~notice)
    /\ n >= 21 =>
         (shown < n /\ IsSample(text) /\ HasTotal(text, n) /\ ~caption)

C13_Witness ==
  /\ Rendered /\ Len(unit.data.v) = 21
  /\ IsSample(unit.result.text) /\ HasTotal(unit.result.text, 21)

\* the cell of column a in a shown row: the number of the row in the result
IdCell(cells) ==
  LET columns == unit.columns.v
      j == CHOOSE i \in 1..Len(columns) : columns[i] = ColA
  IN cells[j]

\* C14: for a result of n > 20 rows the sample is exactly five data rows, the
\* rows 1, 2, 3, n-1 and n of the result in that order, each once and no
\* other; the total the text reports is n.
C14_SampleRows ==
  (Rendered /\ Len(unit.data.v) > 20) =>
    LET n == Len(unit.data.v)
        rows == DataRows(unit.result.text)
    IN
    /\ Len(rows) = 5
    /\ [k \in 1..Len(rows) |-> IdCell(rows[k])]
         = <<Digits(1), Digits(2), Digits(3), Digits(n - 1), Digits(n)>>
    /\ HasTotal(unit.result.text, n)
    /\ \A m \in 0..(MaxRows + 1) : HasTotal(unit.result.text, m) => m = n

C14_Witness ==
  /\ Rendered /\ Len(unit.data.v) = 22
  /\ Len(DataRows(unit.result.text)) = 5
  /\ IdCell(DataRows(unit.result.text)[4]) = <<"2", "1">>

\* the rows of the result that the text shows, by their number
Shown(n) == IF n <= 20 THEN [k \in 1..n |-> k] ELSE <<1, 2, 3, n - 1, n>>

WithoutCommas(s) == SelectSeq(s, LAMBDA c : c # ",")

\* C15: in every branch a shown row has one cell for each entry of the column
\* list, in the order of the list: the value of that column in the row, the
\* literal null when the row has no such key or holds null there; keys that
\* the list does not name are not rendered.
C15_CellsFollowColumns ==
  Rendered =>
    LET data == unit.data.v
        columns == unit.columns.v
        rows == DataRows(unit.result.text)
        shown == Shown(Len(data))
    IN
    /\ Len(rows) = Len(shown)
    /\ \A k \in 1..Len(rows) :
         /\ Len(rows[k]) = Len(columns)
         /\ \A j \in 1..Len(columns) :
              LET row == data[shown[k]]
                  cell == rows[k][j]
              IN
              IF columns[j] \notin DOMAIN row \/ row[columns[j]].t = "null"
                THEN cell = <<"n", "u", "l", "l">>
              ELSE IF row[columns[j]].t = "number"
                THEN WithoutCommas(cell) = Digits(row[columns[j]].v)
              ELSE cell = row[columns[j]].v

C15_Witness ==
  /\ Rendered /\ unit.columns.v = <<ColA, ColC, ColB>> /\ Len(unit.data.v) = 21
  /\ ColB \notin DOMAIN unit.data.v[2]
  /\ DataRows(unit.result.text)[2] = << <<"2">>, <<"n", "u", "l", "l">>, <<"n", "u", "l", "l">> >>
  /\ DataRows(unit.result.text)[1] = << <<"1">>, <<"n", "u", "l", "l">>, <<"v">> >>

(* reading a CSV text back: records end at a line break, fields at a comma; *)
(* a field that begins with a double quote runs to its closing quote, and  *)
(* two double quotes inside it stand for one                               *)

RECURSIVE ParseFrom(_, _, _, _, _, _)
ParseFrom(s, i, quoted, field, record, records) ==
  IF i > Len(s)
    THEN IF field = <<>> /\ record = <<>> THEN records
         ELSE Append(records, Append(record, field))
  ELSE IF quoted
    THEN IF s[i] # "\"" THEN ParseFrom(s, i + 1, TRUE, Append(field, s[i]), record, records)
         ELSE IF i < Len(s) /\ s[i + 1] = "\""
           THEN ParseFrom(s, i + 2, TRUE, Append(field, "\""), record, records)
         ELSE ParseFrom(s, i + 1, FALSE, field, record, records)
  ELSE IF s[i] = "\"" /\ field = <<>>
    THEN ParseFrom(s, i + 1, TRUE, field, record, records)
  ELSE IF s[i] = ","
    THEN ParseFrom(s, i + 1, FALSE, <<>>, Append(record, field), records)
  ELSE IF s[i] = "\n"
    THEN ParseFrom(s, i + 1, FALSE, <<>>, <<>>, Append(records, Append(record, field)))
  ELSE ParseFrom(s, i + 1, FALSE, Append(field, s[i]), record, records)

ParseCsv(text) == ParseFrom(text, 1, FALSE, <<>>, <<>>, <<>>)

\* saveDataAsCSV has written the file
Saved ==
  unit.fn = "saveDataAsCSV" /\ unit.stage = "returned" /\ unit.result.state = "fulfilled"

\* what a cell value is expected to read back as
ReadBack(value) == IF value.t \in {"undefined", "null"} THEN <<>> ELSE ToText(value)

\* C16, as stated: the text saveDataAsCSV writes, parsed back, gives the column
\* names in order and then, row by row, the cell values (null and undefined as
\* the empty string), also when names and values hold commas, double quotes
\* and line breaks; a value with a comma is written between double quotes,
\* its own double quotes doubled.
C16_Original ==
  Saved =>
    LET data == unit.data.v
        columns == unit.columns.v
        parsed == ParseCsv(unit.result.content)
    IN
    /\ Len(parsed) = 1 + Len(data)
    /\ parsed[1] = columns
    /\ \A k \in 1..Len(data) :
         parsed[k + 1] = [j \in 1..Len(columns) |-> ReadBack(Cell(data[k], columns[j]))]
    /\ \A k \in 1..Len(data) : \A j \in 1..Len(columns) :
         LET text == ReadBack(Cell(data[k], columns[j])) IN
         Includes(text, <<",">>) =>
           Includes(unit.result.content, <<"\"">> \o DoubleQuotes(text) \o <<"\"">>)

\* an exception reached the catch block of queryWithNaturalLanguage
Caught(p) == Done(p) /\ caught[p].at \notin {"none", "handler"}

\* the counter as the code before the throw had left it: 0 after the reset,
\* and otherwise the count the invocation began with, plus one when a
\* non-success status other than 401 had been counted already
CountBeforeCatch(p) ==
  IF ChatSucceeded(p) THEN 0
  ELSE IF chatStatus[p] # 0 /\ ~Ok(chatStatus[p]) /\ chatStatus[p] # 401 THEN count0[p] + 1
  ELSE count0[p]

\* C17: every exception during the call sequence (a request that cannot be
\* made, a body that cannot be read or parsed, a failure after the responses)
\* adds one to the counter and ends the invocation with a text: the "try
\* simplifying" timeout message for an AbortError, the connectivity-error
\* message with the error's message otherwise.
C17_CatchCountsAndReports ==
  \A p \in Slots :
    Caught(p) =>
      /\ failureCount = CountBeforeCatch(p) + 1
      /\ response[p].kind = "text"
      /\ caught[p].name = "AbortError" =>
           response[p].text = <<"Request timed out. The query might be too complex. Try simplifying your question.">>
      /\ caught[p].name # "AbortError" =>
           response[p].text = <<"Error connecting to the data portal: ">> \o caught[p].message

C17_Witness ==
  \E p \in Slots :
    /\ Caught(p) /\ caught[p].name = "AbortError" /\ caught[p].at = "queryFetch"
    /\ count0[p] = 3 /\ failureCount = 1
    /\ response[p].text = TimeoutText

\* C18: the model identifier of an invocation is fixed by the counter as the
\* invocation found it: gpt-5 when that count was 3 or more, gpt-4.1 otherwise;
\* whatever the invocation does to the counter afterwards, the identifier in
\* the request it has sent stays what it was.
C18_ModelFromCountAtStart ==
  \A p \in Slots :
    Orchestrated(p) =>
      /\ Len(ChatRequests(p)) = 1
      /\ count0[p] >= 3 => (SentModel(p) = "gpt-5" /\ model[p] = "gpt-5")
      /\ count0[p] < 3 => (SentModel(p) = "gpt-4.1" /\ model[p] = "gpt-4.1")

C18_Witness ==
  \E p \in Slots :
    /\ Done(p) /\ Orchestrated(p) /\ count0[p] = 3 /\ failureCount = 0
    /\ SentModel(p) = "gpt-5"

\* every character of the text is white space (the empty text included)
Blank(text) == \A i \in 1..Len(text) : text[i] \in WhiteSpace

\* the text holds the letters c-l-a-r-i-f in a row, each in either case
MentionsClarif(text) ==
  \E i \in 1..(Len(text) - 5) :
    \A k \in 1..6 :
      text[i + k - 1] \in {<<"c", "l", "a", "r", "i", "f">>[k], <<"C", "L", "A", "R", "I", "F">>[k]}

\* the chat-intent call succeeded and gave no query to execute
AnsweredWithoutQuery(p) ==
  /\ Done(p) /\ ChatSucceeded(p) /\ caught[p] = NoError
  /\ Blank(sqlQuery[p].v)

\* C19: when the chat-intent call succeeds and sqlQuery is missing, empty or
\* white space only, no query-execution request is made and the communication
\* is the answer: behind the clarifying-question callout exactly when it holds
\* a question mark or "clarif" in any letter case, and verbatim otherwise.
C19_ClarifyingQuestion ==
  \A p \in Slots :
    AnsweredWithoutQuery(p) =>
      LET comm == communication[p].v
          callout == IF (\E i \in 1..Len(comm) : comm[i] = "?") \/ MentionsClarif(comm)
                     THEN <<"**Question for you:** ">> ELSE <<>>
      IN
      /\ QueryRequests(p) = <<>> /\ queryStatus[p] = 0
      /\ response[p] = Content(modelNotification[p] \o callout \o comm)

C19_Witness ==
  \E p \in Slots :
    /\ AnsweredWithoutQuery(p) /\ sqlQuery[p].v = <<" ">>
    /\ communication[p].v = <<"C", "l", "a", "r", "i", "f", "y">>
    /\ response[p].text = <<"**Question for you:** ", "C", "l", "a", "r", "i", "f", "y">>

\* C20: a query-execution request goes out only after the chat-intent response
\* of the same invocation came with a success status and a sqlQuery that is not
\* blank; it carries exactly that sqlQuery and the bearer token of the
\* chat-intent request; when the chat-intent call failed, none goes out.
C20_QueryOnlyAfterChat ==
  \A p \in Slots :
    /\ QueryRequests(p) # <<>> =>
         /\ Ok(chatStatus[p]) /\ ChatSucceeded(p)
         /\ ~Blank(sqlQuery[p].v)
         /\ Len(net[p]) = 2 /\ net[p][1].ep = "chat" /\ net[p][2].ep = "query"
         /\ net[p][2].query = sqlQuery[p].v
         /\ net[p][2].token = net[p][1].token /\ net[p][2].token = userAccessToken
    /\ (Orchestrated(p) /\ ~Ok(chatStatus[p])) => QueryRequests(p) = <<>>
    /\ caught[p].at \in {"chatFetch", "chatText", "chatJson"} => QueryRequests(p) = <<>>

C20_Witness ==
  \E p \in Slots :
    /\ pc[p] = "queryFetch" /\ chatStatus[p] = 200
    /\ net[p][2] = [ep |-> "query", token |-> <<"t", "k">>, query |-> <<"S", "Q", "L">>]

\* the query-execution call ended with a non-success status
QueryStatusFailed(p) == Done(p) /\ queryStatus[p] # 0 /\ ~Ok(queryStatus[p])

\* an exception was thrown while the query-execution request was made or its
\* response was read
QueryThrew(p) == Done(p) /\ caught[p].at \in {"queryFetch", "queryText", "queryJson"}

\* C21, as stated: a failure of the query-execution endpoint, a non-success
\* status as well as a thrown exception, ends the invocation with a failure
\* message, without CSV file or rendering, and adds one to the counter, which
\* the chat-intent success had reset to 0.
C21_Original ==
  \A p \in Slots :
    (QueryStatusFailed(p) \/ QueryThrew(p)) =>
      /\ response[p].kind = "text" /\ csvPromise[p] = NoPromise
      /\ failureCount = 1

\* C21, amended: a failure of the query-execution endpoint ends the invocation
\* with a failure message, without CSV file or rendering and without a further
\* request.  A thrown exception adds one to the counter (0 after the reset, so
\* 1); a non-success status whose body is read leaves the counter at 0.
C21_QueryFailureIsTerminal ==
  \A p \in Slots :
    /\ (QueryStatusFailed(p) \/ QueryThrew(p)) =>
         /\ response[p].kind = "text" /\ csvPromise[p] = NoPromise
         /\ Len(net[p]) = 2
    /\ QueryThrew(p) =>
         /\ failureCount = 1
         /\ response[p].text \in
              { <<"Request timed out. The query might be too complex. Try simplifying your question.">>,
                <<"Error connecting to the data portal: ">> \o caught[p].message }
    /\ (QueryStatusFailed(p) /\ ~QueryThrew(p)) =>
         /\ failureCount = 0
         /\ \E body \in ErrorBodies :
              response[p].text = modelNotification[p] \o <<"Query execution failed: ">> \o body

C21_Witness ==
  \E p \in Slots :
    /\ QueryStatusFailed(p) /\ ~QueryThrew(p) /\ queryStatus[p] = 500
    /\ count0[p] = 3 /\ failureCount = 0
    /\ response[p].text = SwitchNotice \o <<"Query execution failed: ", "d", "o", "w", "n">>

\* the query-execution call returned a success status and a body without a
\* row array
NoRowArray(p) ==
  /\ Ok(queryStatus[p])
  /\ "data" \in DOMAIN queryData[p]
  /\ queryData[p].data.t # "array"

\* C22: when the query-execution call succeeds and its payload holds no row
\* array, the invocation returns the communication followed by the "no data"
\* notice, writes no CSV file and renders nothing, and ends with the counter
\* at 0.
C22_NoDataAnswer ==
  \A p \in Slots :
    NoRowArray(p) =>
      /\ Done(p) /\ caught[p] = NoError
      /\ response[p] = Content(modelNotification[p] \o communication[p].v
                                \o <<"\n\nQuery executed but returned no data.">>)
      /\ csvPromise[p] = NoPromise
      /\ failureCount = 0

C22_Witness ==
  \E p \in Slots :
    /\ NoRowArray(p) /\ Done(p) /\ count0[p] = 2 /\ failureCount = 0
    /\ response[p].text = <<"o", "k", "\n\nQuery executed but returned no data.">>

\* C23: if every network call that is issued responds or fails in the end,
\* every invocation that has started returns a result to its caller, having
\* made at most two network calls.
C23_EveryInvocationReturns ==
  \A p \in Slots :
    (pc[p] # "idle") ~> (Done(p) /\ response[p].kind = "text" /\ Len(net[p]) <= 2)

C23_Witness ==
  \E p \in Slots :
    /\ Done(p) /\ response[p].kind = "text" /\ Len(net[p]) = 2
    /\ csvPromise[p].state = "fulfilled"

\* C24, as stated: an invocation raises the counter by at most one: whatever
\* path it takes, the counter at its end is at most one greater than at its
\* start.
C24_Original ==
  \A p \in Slots :
    (Done(p) /\ Orchestrated(p)) => failureCount <= count0[p] + 1

\* C25: the counter is a natural number in every state; a step lowers it only
\* when a chat-intent response with a success status has been parsed, and
\* then to 0; so an invocation that starts with the counter at 3 or more asks
\* for gpt-5, also after 401 responses and pre-flight rejections, until a
\* chat-intent call succeeds.
C25_CounterOnlyResets ==
  /\ [](failureCount \in Nat)
  /\ [][ failureCount' < failureCount =>
           /\ failureCount' = 0
           /\ \E p \in Slots :
                /\ pc[p] = "chatJson" /\ Ok(chatStatus[p])
                /\ pc'[p] # "chatJson" /\ caught'[p].at # "chatJson" ]_vars
  /\ [][ \A p \in Slots :
           (pc[p] = "idle" /\ pc'[p] = "chatFetch" /\ failureCount >= 3) =>
             net'[p] # <<>> /\ net'[p][1].ep = "chat" /\ net'[p][1].model = "gpt-5" ]_vars

C25_Witness ==
  \E p \in Slots :
    /\ Orchestrated(p) /\ hist.chatStatus = 401 /\ count0[p] = 3 /\ failureCount = 3
    /\ SentModel(p) = "gpt-5"

\* the request names an unknown tool, or the server has no access token, or
\* the request has no prompt or an empty one
ToBeRejected(p) ==
  /\ pc[p] # "idle"
  /\ \/ request[p].name # "query_data"
     \/ userAccessToken = <<>>
     \/ request[p].arguments.t # "object"
     \/ request[p].arguments.v.prompt \in {Undef, Str(<<>>)}

\* C26: an invocation rejected before the orchestration, for an unknown tool
\* name, a missing access token or a missing or empty prompt, makes no network
\* call, touches nothing of the orchestration and leaves the counter as it was:
\* the model of the next invocation is what it would have been.
C26_PreflightFrame ==
  \A p \in Slots :
    ToBeRejected(p) =>
      /\ Done(p) /\ response[p].kind = "text"
      /\ net[p] = <<>> /\ failureCount = count0[p]
      /\ model[p] = "" /\ chatStatus[p] = 0 /\ queryStatus[p] = 0
      /\ csvPromise[p] = NoPromise

C26_Witness ==
  \E p \in Slots :
    /\ ToBeRejected(p) /\ Done(p) /\ userAccessToken = <<"t", "k">>
    /\ request[p].name = "query_data" /\ request[p].arguments = Obj([prompt |-> Str(<<>>)])
    /\ failureCount = 3 /\ net[p] = <<>>

\* C27: while every invocation so far had its chat-intent call succeed and its
\* query-execution call throw, the counter is 1 after each of them (0 before
\* the first), and each invocation asks for the default model.
C27_QueryThrowsNeverEscalate ==
  hist.onlyQueryThrows =>
    \A p \in Slots :
      /\ (\A q \in Slots : pc[q] = "idle") =>
           failureCount = (IF hist.failStreak = 0 THEN 0 ELSE 1)
      /\ Orchestrated(p) =>
           /\ count0[p] = (IF hist.failStreak = 0 THEN 0 ELSE 1)
           /\ SentModel(p) = "gpt-4.1"
      /\ (Done(p) /\ ChatSucceeded(p) /\ QueryThrew(p)) => failureCount = 1

C27_Witness ==
  \E p \in Slots :
    /\ hist.onlyQueryThrows /\ hist.failStreak = 4
    /\ Done(p) /\ ChatSucceeded(p) /\ QueryThrew(p)
    /\ failureCount = 1 /\ SentModel(p) = "gpt-4.1"

\* C28, as stated: with two invocations interleaved at their awaits, an
\* invocation that asked for gpt-5, whose chat-intent call succeeded and which
\* met no exception returns a text that begins with the model-switch notice.
C28_Original ==
  \A p \in Slots :
    (Done(p) /\ Orchestrated(p) /\ SentModel(p) = "gpt-5" /\ ChatSucceeded(p)
       /\ caught[p] = NoError) =>
      BeginsWithNotice(response[p].text)

\* C29, as stated: when the NumSlots invocations of a burst, all begun before
\* any of them touched the counter, have each ended in a non-auth chat failure,
\* the counter is exactly NumSlots higher than when they began: no increment
\* is lost.
C29_Original ==
  \A p \in Slots :
    (\A q \in Slots : ChatFailedNonAuth(q) /\ count0[q] = count0[p]) =>
      failureCount = count0[p] + NumSlots

\* the text carries the performance note of the table build
HasPerformanceNote(text) ==
  Includes(text, <<"**Performance Note:** Large dataset retrieved (">>)

\* C30, as stated: in the table build, an answer with a rendered result
\* carries the performance note exactly when the Renderer gave the sampled
\* form, whatever row count the service reports for whatever row array.
C30_Original ==
  \A p \in Slots :
    (variant = "table" /\ Done(p) /\ ChatSucceeded(p) /\ HasRowArray(p)
       /\ caught[p] = NoError) =>
      (HasPerformanceNote(response[p].text) <=> IsSample(response[p].text))

====
